---- MODULE Spec2Model ----
(***************************************************************************)
(* Wiki pages binding of the Redmine client (wikies.go).                   *)
(*                                                                         *)
(* Go strings that the code concatenates, converts or escapes (project     *)
(* identifiers, titles, include values, paths, query strings) are          *)
(* sequences of one-character strings, so that concatenation, decimal      *)
(* formatting and query escaping are computed character by character.      *)
(* Strings the code only carries (texts, comments, errors) are TLA+        *)
(* strings.                                                                *)
(***************************************************************************)
EXTENDS Integers, Sequences, FiniteSets, TLC

VARIABLES
    nops,      \* operations the caller has invoked so far
    ncalls,    \* transport calls performed so far
    last,      \* the operation the caller invoked last, with its request and result
    server,    \* the remote wiki behind the transport: its pages by project and title
    inflight,  \* concurrent calls: every call's arguments, position and locals
    frames     \* concurrent calls: the locals (ur, w) of the running activations

vars == <<nops, ncalls, last, server, inflight, frames>>

----------------------------------------------------------------------------
(* Bounds of the model *)

\* operations one behaviour invokes
MaxOps == 3

\* highest version the remote wiki assigns to a page
MaxRev == 3

\* calls issued concurrently on one Context
MaxCalls == 2

----------------------------------------------------------------------------
(* net/http status codes *)

StatusOK == 200

StatusCreated == 201

StatusNoContent == 204

StatusNotFound == 404

StatusConflict == 409

----------------------------------------------------------------------------
(* String literals of wikies.go *)

\* "/projects/"
StrProjects == <<"/", "p", "r", "o", "j", "e", "c", "t", "s", "/">>

\* "/wiki/"
StrWiki == <<"/", "w", "i", "k", "i", "/">>

\* "/wiki/index.json"
StrWikiIndexJson == StrWiki \o <<"i", "n", "d", "e", "x", ".", "j", "s", "o", "n">>

\* ".json"
StrDotJson == <<".", "j", "s", "o", "n">>

\* "/"
StrSlash == <<"/">>

\* "attachments", the one include the binding documents
StrAttachments == <<"a", "t", "t", "a", "c", "h", "m", "e", "n", "t", "s">>

\* "include", the query parameter of the includes
StrInclude == <<"i", "n", "c", "l", "u", "d", "e">>

----------------------------------------------------------------------------
(* strconv.Itoa *)

Digits == <<"0", "1", "2", "3", "4", "5", "6", "7", "8", "9">>

RECURSIVE FormatUint(_)
FormatUint(n) ==
    IF n < 10 THEN <<Digits[n + 1]>>
    ELSE FormatUint(n \div 10) \o <<Digits[(n % 10) + 1]>>

Itoa(n) == IF n < 0 THEN <<"-">> \o FormatUint(0 - n) ELSE FormatUint(n)

----------------------------------------------------------------------------
(* net/url: Values.Encode and QueryEscape / QueryUnescape *)

\* characters QueryEscape leaves alone (the ones of the model's alphabet)
Unreserved ==
    {"a", "b", "c", "d", "e", "f", "g", "h", "i", "j", "k", "l", "m", "n", "o",
     "p", "q", "r", "s", "t", "u", "v", "w", "x", "y", "z", "H",
     "0", "1", "2", "3", "4", "5", "6", "7", "8", "9", "-", "_", ".", "~"}

\* upper-case hex code of the other characters of the model's alphabet
HexOf ==
    [c \in {"/", ",", "&", "=", "?", "%", "+"} |->
        CASE c = "/" -> <<"2", "F">>
          [] c = "," -> <<"2", "C">>
          [] c = "&" -> <<"2", "6">>
          [] c = "=" -> <<"3", "D">>
          [] c = "?" -> <<"3", "F">>
          [] c = "%" -> <<"2", "5">>
          [] c = "+" -> <<"2", "B">>]

EscapeChar(c) ==
    IF c \in Unreserved THEN <<c>>
    ELSE IF c = " " THEN <<"+">>
    ELSE <<"%">> \o HexOf[c]

RECURSIVE QueryEscape(_)
QueryEscape(s) ==
    IF s = <<>> THEN <<>> ELSE EscapeChar(Head(s)) \o QueryEscape(Tail(s))

RECURSIVE QueryUnescape(_)
QueryUnescape(s) ==
    IF s = <<>> THEN <<>>
    ELSE IF Head(s) = "+" THEN <<" ">> \o QueryUnescape(Tail(s))
    ELSE IF Head(s) = "%" /\ Len(s) >= 3
         THEN <<CHOOSE c \in DOMAIN HexOf : HexOf[c] = <<s[2], s[3]>> >>
              \o QueryUnescape(SubSeq(s, 4, Len(s)))
    ELSE <<Head(s)>> \o QueryUnescape(Tail(s))

\* url.Values{} : the parameters as <<key, value>> pairs.  The binding only
\* ever adds the one key "include", so the key order of Encode is immaterial.
EmptyValues == <<>>

ValuesAdd(v, key, value) == Append(v, <<key, value>>)

RECURSIVE ValuesEncode(_)
ValuesEncode(v) ==
    IF v = <<>> THEN <<>>
    ELSE LET kv == QueryEscape(v[1][1]) \o <<"=">> \o QueryEscape(v[1][2])
         IN  IF Len(v) = 1 THEN kv ELSE kv \o <<"&">> \o ValuesEncode(Tail(v))

RECURSIVE Join(_, _)
Join(ss, sep) ==
    IF ss = <<>> THEN <<>>
    ELSE IF Len(ss) = 1 THEN ss[1]
    ELSE ss[1] \o sep \o Join(Tail(ss), sep)

\* urlIncludes(&urlParams, includes): a non-empty include list becomes the
\* single parameter include=<values joined by commas>
urlIncludes(urlParams, includes) ==
    IF Len(includes) = 0 THEN urlParams
    ELSE ValuesAdd(urlParams, StrInclude, Join(includes, <<",">>))

----------------------------------------------------------------------------
(* Generic helpers on character sequences *)

IsPrefix(p, s) == Len(p) <= Len(s) /\ SubSeq(s, 1, Len(p)) = p

IsSuffix(p, s) == Len(p) <= Len(s) /\ SubSeq(s, Len(s) - Len(p) + 1, Len(s)) = p

Contains(s, p) ==
    \E i \in 1..(Len(s) - Len(p) + 1) : SubSeq(s, i, i + Len(p) - 1) = p

----------------------------------------------------------------------------
(* Data-transfer records *)

\* zero value of WikiObject (Parent, Author and the dates are carried like
\* Comments and are left out); Attachments is a pointer: <<>> is nil, <<l>>
\* points to the list l
ZeroWikiObject ==
    [Title |-> <<>>, Text |-> "", Version |-> 0, Comments |-> "", Attachments |-> <<>>]

\* var w wikiAllResult
ZeroWikiAllResult == [kind |-> "wikiAllResult", WikiPages |-> <<>>]

\* var w wikiSingleResult
ZeroWikiSingleResult == [kind |-> "wikiSingleResult", WikiPage |-> ZeroWikiObject]

\* nil, as a request body or as a destination
Nil == [kind |-> "nil"]

\* wikiCreate{WikiPage: wiki}
wikiCreate(wiki) == [kind |-> "wikiCreate", WikiPage |-> wiki]

\* wikiUpdate{WikiPage: wiki}
wikiUpdate(wiki) == [kind |-> "wikiUpdate", WikiPage |-> wiki]

\* error values: nil, a transport-level failure, a decode failure
NoErr == "nil"

ErrTransport == "transport failure"

ErrDecode == "decode failure"

----------------------------------------------------------------------------
(* JSON, as the struct tags of wikies.go define it *)

\* encoding of a request body: text always, comments and version only when
\* they are not the zero value (omitempty); uploads are always empty here
Marshal(in) ==
    IF in.kind = "nil" THEN [kind |-> "none"]
    ELSE [kind     |-> "wiki_page",
          fields   |-> {"text"}
                       \cup (IF in.WikiPage.Comments # "" THEN {"comments"} ELSE {})
                       \cup (IF in.kind = "wikiUpdate" /\ in.WikiPage.Version # 0
                             THEN {"version"} ELSE {}),
          text     |-> in.WikiPage.Text,
          comments |-> in.WikiPage.Comments,
          version  |-> IF in.kind = "wikiUpdate" THEN in.WikiPage.Version ELSE 0]

\* a response body is JSON unless it is empty or garbage
ValidJSON(body) == body.kind \notin {"empty", "garbage"}

\* decoding of a response body into a destination: the key the destination
\* declares is taken, any other key is ignored
Unmarshal(body, out) ==
    IF out.kind = "wikiAllResult" /\ body.kind = "wiki_pages"
    THEN [out EXCEPT !.WikiPages = body.pages]
    ELSE IF out.kind = "wikiSingleResult" /\ body.kind = "wiki_page"
    THEN [out EXCEPT !.WikiPage = body.page]
    ELSE out

----------------------------------------------------------------------------
(* The remote wiki: the server side of the REST API the binding addresses *)

\* position of the first "/" of s, 0 when there is none
FirstSlash(s) ==
    IF \E i \in 1..Len(s) : s[i] = "/"
    THEN CHOOSE i \in 1..Len(s) : s[i] = "/" /\ \A j \in 1..(i - 1) : s[j] # "/"
    ELSE 0

IsNumber(s) == Len(s) > 0 /\ \A i \in 1..Len(s) : \E d \in 1..10 : Digits[d] = s[i]

RECURSIVE Atoi(_)
Atoi(s) ==
    IF s = <<>> THEN 0
    ELSE 10 * Atoi(SubSeq(s, 1, Len(s) - 1))
         + (CHOOSE d \in 0..9 : Digits[d + 1] = s[Len(s)])

RECURSIVE Split(_, _)
Split(s, sep) ==
    IF \E i \in 1..Len(s) : s[i] = sep
    THEN LET i == CHOOSE k \in 1..Len(s) : s[k] = sep /\ \A j \in 1..(k - 1) : s[j] # sep
         IN  <<SubSeq(s, 1, i - 1)>> \o Split(SubSeq(s, i + 1, Len(s)), sep)
    ELSE <<s>>

NoRoute == [kind |-> "none"]

\* <title> or <title>/<n>, j being the position of the first "/" of the stem
RouteStem(project, stem, j) ==
    IF stem = <<"i", "n", "d", "e", "x">> THEN [kind |-> "index", project |-> project]
    ELSE IF stem = <<>> \/ j = 1 THEN NoRoute
    ELSE IF j = 0 THEN [kind |-> "page", project |-> project, title |-> stem]
    ELSE IF IsNumber(SubSeq(stem, j + 1, Len(stem)))
    THEN [kind    |-> "version",
          project |-> project,
          title   |-> SubSeq(stem, 1, j - 1),
          version |-> Atoi(SubSeq(stem, j + 1, Len(stem)))]
    ELSE NoRoute

\* <project>/wiki/<stem>, i being the position of the first "/" of rest
RouteProject(rest, i) ==
    IF i <= 1 \/ ~IsPrefix(StrWiki, SubSeq(rest, i, Len(rest))) THEN NoRoute
    ELSE RouteStem(SubSeq(rest, 1, i - 1),
                   SubSeq(rest, i + Len(StrWiki), Len(rest)),
                   FirstSlash(SubSeq(rest, i + Len(StrWiki), Len(rest))))

RouteRest(rest) == RouteProject(rest, FirstSlash(rest))

\* the resource a path addresses:
\*   /projects/<project>/wiki/index.json           the pages of a project
\*   /projects/<project>/wiki/<title>.json         a page
\*   /projects/<project>/wiki/<title>/<n>.json     version n of a page
Route(path) ==
    IF Len(path) < Len(StrProjects) + Len(StrDotJson)
       \/ ~IsPrefix(StrProjects, path) \/ ~IsSuffix(StrDotJson, path)
    THEN NoRoute
    ELSE RouteRest(SubSeq(path, Len(StrProjects) + 1, Len(path) - Len(StrDotJson)))

IsMember(x, seq) == \E k \in 1..Len(seq) : seq[k] = x

\* whether the query string asks for the attachments
WantsAttachments(query) ==
    /\ IsPrefix(StrInclude \o <<"=">>, query)
    /\ IsMember(StrAttachments,
                Split(QueryUnescape(SubSeq(query, Len(StrInclude) + 2, Len(query))), ","))

\* index of the page (project, title) among the pages, 0 when there is none
PageIndex(pages, project, title) ==
    IF \E i \in 1..Len(pages) : pages[i].project = project /\ pages[i].title = title
    THEN CHOOSE i \in 1..Len(pages) : pages[i].project = project /\ pages[i].title = title
    ELSE 0

\* the characters of the model in ASCII order
Alphabet ==
    <<" ", "%", "&", "+", ",", "-", ".", "/",
      "0", "1", "2", "3", "4", "5", "6", "7", "8", "9", "=", "?", "H", "_",
      "a", "b", "c", "d", "e", "f", "g", "h", "i", "j", "k", "l", "m", "n", "o",
      "p", "q", "r", "s", "t", "u", "v", "w", "x", "y", "z", "~">>

CharRank(c) == CHOOSE i \in 1..Len(Alphabet) : Alphabet[i] = c

RECURSIVE StrLess(_, _)
StrLess(a, b) ==
    IF b = <<>> THEN FALSE
    ELSE IF a = <<>> THEN TRUE
    ELSE IF Head(a) = Head(b) THEN StrLess(Tail(a), Tail(b))
    ELSE CharRank(Head(a)) < CharRank(Head(b))

PageLess(a, b) ==
    \/ StrLess(a.project, b.project)
    \/ a.project = b.project /\ StrLess(a.title, b.title)

\* the remote wiki keeps its pages by project and title
InsertPage(pages, new) ==
    SelectSeq(pages, LAMBDA x : PageLess(x, new)) \o <<new>>
    \o SelectSeq(pages, LAMBDA x : ~PageLess(x, new))

RECURSIVE Summaries(_, _)
Summaries(pages, project) ==
    IF pages = <<>> THEN <<>>
    ELSE (IF pages[1].project = project
          THEN <<[Title |-> pages[1].title, Version |-> Len(pages[1].revs)]>>
          ELSE <<>>) \o Summaries(Tail(pages), project)

\* version v of a page as the body of a response
PageBody(page, v, query) ==
    [kind |-> "wiki_page",
     page |-> [Title       |-> page.title,
               Text        |-> page.revs[v].text,
               Version     |-> v,
               Comments    |-> page.revs[v].comments,
               Attachments |-> IF WantsAttachments(query) THEN << <<>> >> ELSE <<>>]]

Http(status, body) == [kind |-> "http", status |-> status, body |-> body]

EmptyBody == [kind |-> "empty"]

RemoveAt(seq, i) == SubSeq(seq, 1, i - 1) \o SubSeq(seq, i + 1, Len(seq))

NotFound(pages) == [resp |-> Http(StatusNotFound, EmptyBody), pages |-> pages]

\* a request on the page pages[i] (i = 0: there is no such page)
ServePage(pages, verb, rt, i, query, body) ==
    IF verb = "GET" /\ i > 0 /\ rt.kind = "page"
    THEN [resp  |-> Http(StatusOK, PageBody(pages[i], Len(pages[i].revs), query)),
          pages |-> pages]
    ELSE IF verb = "GET" /\ i > 0 /\ rt.kind = "version"
            /\ rt.version \in 1..Len(pages[i].revs)
    THEN [resp  |-> Http(StatusOK, PageBody(pages[i], rt.version, query)),
          pages |-> pages]
    ELSE IF verb = "PUT" /\ rt.kind = "page" /\ body.kind = "wiki_page" /\ i = 0
    THEN [resp  |-> Http(StatusCreated,
                         [kind |-> "wiki_page",
                          page |-> [Title |-> rt.title, Text |-> body.text, Version |-> 1,
                                    Comments |-> body.comments, Attachments |-> <<>>]]),
          pages |-> InsertPage(pages,
                               [project |-> rt.project, title |-> rt.title,
                                revs |-> <<[text |-> body.text,
                                            comments |-> body.comments]>>])]
    ELSE IF verb = "PUT" /\ rt.kind = "page" /\ body.kind = "wiki_page" /\ i > 0
    THEN IF "version" \in body.fields /\ body.version # Len(pages[i].revs)
         THEN [resp |-> Http(StatusConflict, [kind |-> "errors"]), pages |-> pages]
         ELSE [resp  |-> Http(StatusNoContent, EmptyBody),
               pages |-> [pages EXCEPT ![i].revs =
                            Append(@, [text |-> body.text, comments |-> body.comments])]]
    ELSE IF verb = "DELETE" /\ rt.kind = "page" /\ i > 0
    THEN [resp |-> Http(StatusNoContent, EmptyBody), pages |-> RemoveAt(pages, i)]
    ELSE NotFound(pages)

ServeRoute(pages, verb, rt, query, body) ==
    IF rt.kind = "none" THEN NotFound(pages)
    ELSE IF rt.kind = "index"
    THEN IF verb = "GET"
         THEN [resp  |-> Http(StatusOK, [kind  |-> "wiki_pages",
                                         pages |-> Summaries(pages, rt.project)]),
               pages |-> pages]
         ELSE NotFound(pages)
    ELSE ServePage(pages, verb, rt, PageIndex(pages, rt.project, rt.title), query, body)

\* the remote wiki answers a request: [resp |-> the response, pages |-> its pages after]
Serve(pages, verb, path, query, body) == ServeRoute(pages, verb, Route(path), query, body)

----------------------------------------------------------------------------
(* The transport: Context.Get, Context.Put, Context.Del *)

\* The Context r holds the transport's remote end: a mock that answers every
\* request with r.resp, or the remote wiki with the pages r.pages, reachable
\* (r.up) or not.
NetErr == [kind |-> "neterr"]

Served(r, a) == [resp |-> a.resp, r |-> [r EXCEPT !.pages = a.pages]]

RoundTrip(r, verb, ur, body) ==
    IF r.kind = "mock" THEN [resp |-> r.resp, r |-> r]
    ELSE IF ~r.up THEN [resp |-> NetErr, r |-> r]
    ELSE Served(r, Serve(r.pages, verb, ur.Path, ur.RawQuery, body))

\* the end of an exchange: a transport failure gives status 0 and an error;
\* otherwise the status is the response's, and the body is decoded into the
\* destination when there is one.  A status other than the expected one is
\* not made an error.
Received(rt, out, call) ==
    IF rt.resp.kind = "neterr"
    THEN [status |-> 0, err |-> ErrTransport, out |-> out, r |-> rt.r, call |-> call]
    ELSE IF out.kind = "nil"
    THEN [status |-> rt.resp.status, err |-> NoErr, out |-> out, r |-> rt.r, call |-> call]
    ELSE IF ~ValidJSON(rt.resp.body)
    THEN [status |-> rt.resp.status, err |-> ErrDecode, out |-> out, r |-> rt.r,
          call |-> call]
    ELSE [status |-> rt.resp.status, err |-> NoErr, out |-> Unmarshal(rt.resp.body, out),
          r |-> rt.r, call |-> call]

\* one HTTP exchange: the body is encoded, the request sent, the response received
Exchange(r, verb, in, out, ur, statusExpected) ==
    Received(RoundTrip(r, verb, ur, Marshal(in)), out,
             [verb |-> verb, ur |-> ur, body |-> Marshal(in), in |-> in,
              statusExpected |-> statusExpected])

Get(r, out, ur, statusExpected) == Exchange(r, "GET", Nil, out, ur, statusExpected)

Put(r, in, out, ur, statusExpected) == Exchange(r, "PUT", in, out, ur, statusExpected)

Del(r, in, out, ur, statusExpected) == Exchange(r, "DELETE", in, out, ur, statusExpected)

----------------------------------------------------------------------------
(* The binding: the six operations of wikies.go *)

\* Each operation is given in three parts: the call it prepares (its locals:
\* the result holder w and the URL ur, the Context method it invokes, the
\* request body and the expected status), the transport call, and the values
\* it returns from the holder, the status and the error.

\* r.Get / r.Put / r.Del, as the prepared call names it
Send(r, q) ==
    CASE q.method = "Get" -> Get(r, q.w, q.ur, q.statusExpected)
      [] q.method = "Put" -> Put(r, q.in, q.w, q.ur, q.statusExpected)
      [] q.method = "Del" -> Del(r, q.in, q.w, q.ur, q.statusExpected)

WikiAllGetCall(projectID) ==
    [method |-> "Get", in |-> Nil, w |-> ZeroWikiAllResult,
     ur |-> [Path |-> StrProjects \o projectID \o StrWikiIndexJson, RawQuery |-> <<>>],
     statusExpected |-> StatusOK]

RECURSIVE Dedup(_)
Dedup(l) ==
    IF l = <<>> THEN <<>>
    ELSE IF \E k \in 1..(Len(l) - 1) : l[k] = l[Len(l)]
    THEN Dedup(SubSeq(l, 1, Len(l) - 1))
    ELSE Append(Dedup(SubSeq(l, 1, Len(l) - 1)), l[Len(l)])

\* variant of WikiAllGetReturn: a page listed twice is returned once
WikiAllGetReturnDedup(w, status, err) ==
    [val |-> Dedup(w.WikiPages), status |-> status, err |-> err]

WikiAllGetReturn(w, status, err) == [val |-> w.WikiPages, status |-> status, err |-> err]

WikiAllGetResult(t) ==
    [ret |-> WikiAllGetReturn(t.out, t.status, t.err), t |-> t, calls |-> <<t.call>>]

WikiAllGet(r, projectID) ==
    WikiAllGetResult(Send(r, WikiAllGetCall(projectID)))

IsAttachments(v) == v = StrAttachments

\* variant of WikiSingleGetCall: only the documented include is let through
WikiSingleGetCallFiltered(projectID, wikiTitle, request) ==
    [method |-> "Get", in |-> Nil, w |-> ZeroWikiSingleResult,
     ur |-> [Path     |-> StrProjects \o projectID \o StrWiki \o wikiTitle \o StrDotJson,
             RawQuery |-> ValuesEncode(urlIncludes(EmptyValues,
                                                   SelectSeq(request.Includes, IsAttachments)))],
     statusExpected |-> StatusOK]

WikiSingleGetCall(projectID, wikiTitle, request) ==
    LET urlParams == urlIncludes(EmptyValues, request.Includes)
    IN  [method |-> "Get", in |-> Nil, w |-> ZeroWikiSingleResult,
         ur |-> [Path     |-> StrProjects \o projectID \o StrWiki \o wikiTitle \o StrDotJson,
                 RawQuery |-> ValuesEncode(urlParams)],
         statusExpected |-> StatusOK]

WikiSingleGetReturn(w, status, err) == [val |-> w.WikiPage, status |-> status, err |-> err]

WikiSingleGetResult(t) ==
    [ret |-> WikiSingleGetReturn(t.out, t.status, t.err), t |-> t, calls |-> <<t.call>>]

WikiSingleGet(r, projectID, wikiTitle, request) ==
    WikiSingleGetResult(Send(r, WikiSingleGetCall(projectID, wikiTitle, request)))

\* variant of WikiSingleVersionGetCall: the version is left out of the path
WikiSingleVersionGetCallLatest(projectID, wikiTitle, version, request) ==
    [method |-> "Get", in |-> Nil, w |-> ZeroWikiSingleResult,
     ur |-> [Path     |-> StrProjects \o projectID \o StrWiki \o wikiTitle \o StrDotJson,
             RawQuery |-> ValuesEncode(urlIncludes(EmptyValues, request.Includes))],
     statusExpected |-> StatusOK]

WikiSingleVersionGetCall(projectID, wikiTitle, version, request) ==
    LET urlParams == urlIncludes(EmptyValues, request.Includes)
    IN  [method |-> "Get", in |-> Nil, w |-> ZeroWikiSingleResult,
         ur |-> [Path     |-> StrProjects \o projectID \o StrWiki \o wikiTitle
                              \o StrSlash \o Itoa(version) \o StrDotJson,
                 RawQuery |-> ValuesEncode(urlParams)],
         statusExpected |-> StatusOK]

WikiSingleVersionGetReturn(w, status, err) ==
    [val |-> w.WikiPage, status |-> status, err |-> err]

WikiSingleVersionGetResult(t) ==
    [ret |-> WikiSingleVersionGetReturn(t.out, t.status, t.err), t |-> t, calls |-> <<t.call>>]

WikiSingleVersionGet(r, projectID, wikiTitle, version, request) ==
    WikiSingleVersionGetResult(Send(r, WikiSingleVersionGetCall(projectID, wikiTitle, version, request)))

\* variant of WikiCreateCall: the request is sent without the caller's page
WikiCreateCallEmpty(projectID, wikiTitle, wiki) ==
    [method |-> "Put", in |-> wikiCreate([Text |-> "", Comments |-> ""]),
     w |-> ZeroWikiSingleResult,
     ur |-> [Path     |-> StrProjects \o projectID \o StrWiki \o wikiTitle \o StrDotJson,
             RawQuery |-> <<>>],
     statusExpected |-> StatusCreated]

\* variant of WikiCreateCall: the page is addressed below the collection of its title
WikiCreateCallNested(projectID, wikiTitle, wiki) ==
    [method |-> "Put", in |-> wikiCreate(wiki), w |-> ZeroWikiSingleResult,
     ur |-> [Path     |-> StrProjects \o projectID \o StrWiki \o wikiTitle \o wikiTitle
                          \o StrDotJson,
             RawQuery |-> <<>>],
     statusExpected |-> StatusCreated]

WikiCreateCall(projectID, wikiTitle, wiki) ==
    [method |-> "Put", in |-> wikiCreate(wiki), w |-> ZeroWikiSingleResult,
     ur |-> [Path     |-> StrProjects \o projectID \o StrWiki \o wikiTitle \o StrDotJson,
             RawQuery |-> <<>>],
     statusExpected |-> StatusCreated]

\* variant of WikiCreateReturn: the status is zeroed when the transport gave an error
WikiCreateReturnZeroStatus(w, status, err) ==
    [val |-> w.WikiPage, status |-> IF err # NoErr THEN 0 ELSE status, err |-> err]

WikiCreateReturn(w, status, err) == [val |-> w.WikiPage, status |-> status, err |-> err]

WikiCreateResult(t) ==
    [ret |-> WikiCreateReturn(t.out, t.status, t.err), t |-> t, calls |-> <<t.call>>]

WikiCreate(r, projectID, wikiTitle, wiki) ==
    WikiCreateResult(Send(r, WikiCreateCall(projectID, wikiTitle, wiki)))

\* variant of WikiUpdateCall: the expected status of the GET operations is used
WikiUpdateCallExpectsOK(projectID, wikiTitle, wiki) ==
    [method |-> "Put", in |-> wikiUpdate(wiki), w |-> Nil,
     ur |-> [Path     |-> StrProjects \o projectID \o StrWiki \o wikiTitle \o StrDotJson,
             RawQuery |-> <<>>],
     statusExpected |-> StatusOK]

WikiUpdateCall(projectID, wikiTitle, wiki) ==
    [method |-> "Put", in |-> wikiUpdate(wiki), w |-> Nil,
     ur |-> [Path     |-> StrProjects \o projectID \o StrWiki \o wikiTitle \o StrDotJson,
             RawQuery |-> <<>>],
     statusExpected |-> StatusNoContent]

WikiUpdateReturn(status, err) == [status |-> status, err |-> err]

WikiUpdateResult(t) ==
    [ret |-> WikiUpdateReturn(t.status, t.err), t |-> t, calls |-> <<t.call>>]

WikiUpdate(r, projectID, wikiTitle, wiki) ==
    WikiUpdateResult(Send(r, WikiUpdateCall(projectID, wikiTitle, wiki)))

\* variant of WikiDeleteCall: the title is escaped before it goes into the path
WikiDeleteCallEscaped(projectID, wikiTitle) ==
    [method |-> "Del", in |-> Nil, w |-> Nil,
     ur |-> [Path     |-> StrProjects \o projectID \o StrWiki \o QueryEscape(wikiTitle)
                          \o StrDotJson,
             RawQuery |-> <<>>],
     statusExpected |-> StatusNoContent]

WikiDeleteCall(projectID, wikiTitle) ==
    [method |-> "Del", in |-> Nil, w |-> Nil,
     ur |-> [Path     |-> StrProjects \o projectID \o StrWiki \o wikiTitle \o StrDotJson,
             RawQuery |-> <<>>],
     statusExpected |-> StatusNoContent]

\* variant of WikiDeleteReturn: a status other than the expected one is made an error
WikiDeleteReturnStatusError(status, err) ==
    [status |-> status,
     err    |-> IF err = NoErr /\ status # StatusNoContent THEN "unexpected status" ELSE err]

WikiDeleteReturn(status, err) == [status |-> status, err |-> err]

WikiDeleteResult(t) ==
    [ret |-> WikiDeleteReturn(t.status, t.err), t |-> t, calls |-> <<t.call>>]

WikiDelete(r, projectID, wikiTitle) ==
    WikiDeleteResult(Send(r, WikiDeleteCall(projectID, wikiTitle)))

----------------------------------------------------------------------------
(* A caller that invokes the operations one after the other on a mock        *)
(* transport                                                                 *)

ProjectIDs == {<<"p">>, <<"q", " ">>}

WikiTitles == {<<"H">>, <<"a", "/", "1">>, <<"a", "?", "b">>, <<>>}

Versions == {-7, 0, 3, 12, 105}

IncludeLists ==
    {<<>>, <<StrAttachments>>, << <<"h", "i">> >>, <<StrAttachments, <<"h", "i">> >>,
     << <<"x", "&", " ">> >>}

Texts == {"Hello", "Bye"}

WikiCreateObjects == [Text : Texts, Comments : {"", "fix"}]

WikiUpdateObjects == [Text : Texts, Comments : {""}, Version : {0, 1, 2}]

SummaryH == [Title |-> <<"H">>, Version |-> 1]

SummaryA == [Title |-> <<"a">>, Version |-> 2]

PageH ==
    [Title |-> <<"H">>, Text |-> "Hello", Version |-> 1, Comments |-> "",
     Attachments |-> <<>>]

MockBodies ==
    {[kind |-> "empty"], [kind |-> "garbage"], [kind |-> "errors"],
     [kind |-> "wiki_page", page |-> PageH]}
    \cup {[kind |-> "wiki_pages", pages |-> l] :
            l \in {<<>>, <<SummaryH, SummaryA>>, <<SummaryA, SummaryH>>,
                   <<SummaryA, SummaryH, SummaryA>>}}

MockStatuses == {StatusOK, StatusCreated, StatusNoContent, StatusNotFound, StatusConflict}

MockResponses == {NetErr} \cup {Http(st, b) : st \in MockStatuses, b \in MockBodies}

Mock(resp) == [kind |-> "mock", resp |-> resp]

NoOp == [op |-> "none"]

Init ==
    /\ nops = 0
    /\ ncalls = 0
    /\ last = NoOp
    /\ server = <<>>
    /\ inflight = <<>>
    /\ frames = <<>>

\* the caller invokes an operation: it runs to its return
Invoked(op, args, res) ==
    /\ last' = [op |-> op, args |-> args, res |-> res]
    /\ nops' = nops + 1
    /\ ncalls' = ncalls + Len(res.calls)

CanInvoke == last.op = "none" /\ nops < MaxOps

MockWikiAllGet ==
    /\ CanInvoke
    /\ \E projectID \in ProjectIDs, resp \in MockResponses :
          Invoked("WikiAllGet", [projectID |-> projectID, resp |-> resp],
                  WikiAllGet(Mock(resp), projectID))
    /\ UNCHANGED <<server, inflight, frames>>

MockWikiSingleGet ==
    /\ CanInvoke
    /\ \E projectID \in ProjectIDs, wikiTitle \in WikiTitles,
          includes \in IncludeLists, resp \in MockResponses :
          Invoked("WikiSingleGet",
                  [projectID |-> projectID, wikiTitle |-> wikiTitle,
                   request |-> [Includes |-> includes], resp |-> resp],
                  WikiSingleGet(Mock(resp), projectID, wikiTitle, [Includes |-> includes]))
    /\ UNCHANGED <<server, inflight, frames>>

MockWikiSingleVersionGet ==
    /\ CanInvoke
    /\ \E projectID \in ProjectIDs, wikiTitle \in WikiTitles, version \in Versions,
          includes \in IncludeLists, resp \in MockResponses :
          Invoked("WikiSingleVersionGet",
                  [projectID |-> projectID, wikiTitle |-> wikiTitle, version |-> version,
                   request |-> [Includes |-> includes], resp |-> resp],
                  WikiSingleVersionGet(Mock(resp), projectID, wikiTitle, version,
                                       [Includes |-> includes]))
    /\ UNCHANGED <<server, inflight, frames>>

MockWikiCreate ==
    /\ CanInvoke
    /\ \E projectID \in ProjectIDs, wikiTitle \in WikiTitles,
          wiki \in WikiCreateObjects, resp \in MockResponses :
          Invoked("WikiCreate",
                  [projectID |-> projectID, wikiTitle |-> wikiTitle, wiki |-> wiki,
                   resp |-> resp],
                  WikiCreate(Mock(resp), projectID, wikiTitle, wiki))
    /\ UNCHANGED <<server, inflight, frames>>

MockWikiUpdate ==
    /\ CanInvoke
    /\ \E projectID \in ProjectIDs, wikiTitle \in WikiTitles,
          wiki \in WikiUpdateObjects, resp \in MockResponses :
          Invoked("WikiUpdate",
                  [projectID |-> projectID, wikiTitle |-> wikiTitle, wiki |-> wiki,
                   resp |-> resp],
                  WikiUpdate(Mock(resp), projectID, wikiTitle, wiki))
    /\ UNCHANGED <<server, inflight, frames>>

MockWikiDelete ==
    /\ CanInvoke
    /\ \E projectID \in ProjectIDs, wikiTitle \in WikiTitles, resp \in MockResponses :
          Invoked("WikiDelete",
                  [projectID |-> projectID, wikiTitle |-> wikiTitle, resp |-> resp],
                  WikiDelete(Mock(resp), projectID, wikiTitle))
    /\ UNCHANGED <<server, inflight, frames>>

\* the caller has taken the result and is ready for its next operation
Returned ==
    /\ last.op # "none"
    /\ last' = NoOp
    /\ UNCHANGED <<nops, ncalls, server, inflight, frames>>

Next ==
    \/ MockWikiAllGet
    \/ MockWikiSingleGet
    \/ MockWikiSingleVersionGet
    \/ MockWikiCreate
    \/ MockWikiUpdate
    \/ MockWikiDelete
    \/ Returned

Spec == Init /\ [][Next]_vars

----------------------------------------------------------------------------
(* Properties of the operations on a mock transport (specification Spec) *)

GetOps == {"WikiAllGet", "WikiSingleGet", "WikiSingleVersionGet"}

IncludeOps == {"WikiSingleGet", "WikiSingleVersionGet"}

PageOps == {"WikiSingleGet", "WikiCreate", "WikiUpdate", "WikiDelete"}

\* C1: every operation returns exactly the status and the error its transport
\* call returned, on success and on failure alike
C1_StatusAndErrorPassThrough ==
    last.op # "none" =>
        /\ last.res.ret.status = last.res.t.status
        /\ last.res.ret.err = last.res.t.err

\* a create whose transport call failed to decode a 404 returned (404, decode failure)
C1_Witness ==
    /\ last.op = "WikiCreate"
    /\ last.res.t.status = 404
    /\ last.res.t.err = ErrDecode
    /\ last.res.ret.status = 404
    /\ last.res.ret.err = ErrDecode

\* C2: delete returns (the status received, no error) whatever the status is,
\* and no operation returns an error unless the transport or the decoding failed
C2_ErrorOnlyOnTransportOrDecodeFailure ==
    /\ (last.op = "WikiDelete" /\ last.args.resp.kind = "http") =>
           /\ last.res.ret.status = last.args.resp.status
           /\ last.res.ret.err = NoErr
    /\ (last.op # "none" /\ last.res.ret.err # NoErr) =>
           \/ last.args.resp.kind = "neterr"
           \/ ~ValidJSON(last.args.resp.body)

\* a delete answered 404 returned (404, no error)
C2_Witness ==
    /\ last.op = "WikiDelete"
    /\ last.args.resp.kind = "http"
    /\ last.args.resp.status = 404
    /\ last.res.ret.status = 404
    /\ last.res.ret.err = NoErr

\* the verb and the expected status of each operation
C3_Verb(op) ==
    IF op \in GetOps THEN "GET" ELSE IF op = "WikiDelete" THEN "DELETE" ELSE "PUT"

C3_Expected(op) ==
    IF op \in GetOps THEN 200 ELSE IF op = "WikiCreate" THEN 201 ELSE 204

\* C3: every operation performs exactly one transport call, with the verb and
\* the expected status of its kind, whatever the arguments and the answer
C3_OneCallFixedVerbAndStatus ==
    /\ ncalls = nops
    /\ last.op # "none" =>
           /\ Len(last.res.calls) = 1
           /\ last.res.calls[1].verb = C3_Verb(last.op)
           /\ last.res.calls[1].statusExpected = C3_Expected(last.op)

\* a second operation, an update whose call failed, still made one call
C3_Witness ==
    /\ last.op = "WikiUpdate"
    /\ last.args.resp = NetErr
    /\ nops = 2
    /\ ncalls = 2
    /\ last.res.calls[1].verb = "PUT"
    /\ last.res.calls[1].statusExpected = 204

\* the decimal numeral d denotes v
C4_Denotes(d, v) ==
    IF v < 0
    THEN Len(d) > 1 /\ d[1] = "-" /\ IsNumber(Tail(d)) /\ Atoi(Tail(d)) = 0 - v
    ELSE IsNumber(d) /\ Atoi(d) = v

\* the path is "/projects/" p "/wiki/" t "/" d ".json" with d denoting v
C4_VersionPath(path, p, t, v) ==
    /\ IsPrefix(StrProjects \o p \o StrWiki \o t \o <<"/">>, path)
    /\ IsSuffix(StrDotJson, path)
    /\ C4_Denotes(SubSeq(path, Len(StrProjects) + Len(p) + Len(StrWiki) + Len(t) + 2,
                         Len(path) - Len(StrDotJson)), v)

\* C4: the path handed to the transport is the verbatim concatenation of the
\* fixed parts, the project identifier, the title and the version in decimal;
\* get latest, create, update and delete of one (p, t) address the same path
C4_PathVerbatim ==
    /\ last.op = "WikiAllGet" =>
           last.res.t.call.ur.Path
               = <<"/", "p", "r", "o", "j", "e", "c", "t", "s", "/">> \o last.args.projectID
                 \o <<"/", "w", "i", "k", "i", "/", "i", "n", "d", "e", "x", ".", "j", "s",
                      "o", "n">>
    /\ last.op \in PageOps =>
           last.res.t.call.ur.Path
               = <<"/", "p", "r", "o", "j", "e", "c", "t", "s", "/">> \o last.args.projectID
                 \o <<"/", "w", "i", "k", "i", "/">> \o last.args.wikiTitle
                 \o <<".", "j", "s", "o", "n">>
    /\ last.op = "WikiSingleVersionGet" =>
           C4_VersionPath(last.res.t.call.ur.Path, last.args.projectID,
                          last.args.wikiTitle, last.args.version)
    /\ \A p \in ProjectIDs, t \in WikiTitles :
           /\ WikiCreateCall(p, t, [Text |-> "Hello", Comments |-> ""]).ur.Path
                  = WikiSingleGetCall(p, t, [Includes |-> <<>>]).ur.Path
           /\ WikiUpdateCall(p, t, [Text |-> "Hello", Comments |-> "", Version |-> 0]).ur.Path
                  = WikiSingleGetCall(p, t, [Includes |-> <<>>]).ur.Path
           /\ WikiDeleteCall(p, t).ur.Path
                  = WikiSingleGetCall(p, t, [Includes |-> <<>>]).ur.Path

\* version 105 of the title "a/1" of the project "q " was asked for
C4_Witness ==
    /\ last.op = "WikiSingleVersionGet"
    /\ last.args.projectID = <<"q", " ">>
    /\ last.args.wikiTitle = <<"a", "/", "1">>
    /\ last.args.version = 105
    /\ last.res.t.call.ur.Path
           = <<"/", "p", "r", "o", "j", "e", "c", "t", "s", "/", "q", " ", "/", "w", "i",
               "k", "i", "/", "a", "/", "1", "/", "1", "0", "5", ".", "j", "s", "o", "n">>

\* "include="
C5_Key == <<"i", "n", "c", "l", "u", "d", "e", "=">>

\* the query string carries every value of the include list
C5_Carries(query, includes) ==
    /\ IsPrefix(C5_Key, query)
    /\ \A k \in 1..Len(includes) :
           Contains(QueryUnescape(SubSeq(query, Len(C5_Key) + 1, Len(query))), includes[k])

\* C5: in get latest and get version the include list {"attachments"} gives
\* the query include=attachments, an empty list gives an empty query, any
\* other value is carried into the query; the other operations have no query
C5_IncludesInQuery ==
    /\ last.op \in IncludeOps =>
           /\ (last.args.request.Includes = <<>>) <=> (last.res.t.call.ur.RawQuery = <<>>)
           /\ last.args.request.Includes = <<StrAttachments>> =>
                  last.res.t.call.ur.RawQuery = C5_Key \o StrAttachments
           /\ last.args.request.Includes # <<>> =>
                  C5_Carries(last.res.t.call.ur.RawQuery, last.args.request.Includes)
    /\ (last.op # "none" /\ last.op \notin IncludeOps) =>
           last.res.t.call.ur.RawQuery = <<>>

\* get latest with the undocumented include "x& " sent include=x%26+
C5_Witness ==
    /\ last.op = "WikiSingleGet"
    /\ last.args.request.Includes = << <<"x", "&", " ">> >>
    /\ last.res.t.call.ur.RawQuery = C5_Key \o <<"x", "%", "2", "6", "+">>

\* C9: list returns the page summaries as the transport decoded them: the
\* same elements in the same order
C9_ListAsDecoded ==
    last.op = "WikiAllGet" =>
        /\ last.res.ret.val = last.res.t.out.WikiPages
        /\ (last.args.resp.kind = "http" /\ last.args.resp.body.kind = "wiki_pages") =>
               last.res.ret.val = last.args.resp.body.pages

\* a list with a page twice and out of order was returned as it came
C9_Witness ==
    /\ last.op = "WikiAllGet"
    /\ last.res.ret.val = <<SummaryA, SummaryH, SummaryA>>

C9_WitnessEmpty ==
    /\ last.op = "WikiAllGet"
    /\ last.args.resp.kind = "http"
    /\ last.args.resp.body = [kind |-> "wiki_pages", pages |-> <<>>]
    /\ last.res.ret.val = <<>>

----------------------------------------------------------------------------
(* A caller that invokes the operations one after the other on a transport   *)
(* connected to the remote wiki                                              *)

\* the valid (project, title) pairs the caller uses
RemoteKeys == {<<<<"p">>, <<"H">>>>, <<<<"p">>, <<"a">>>>, <<<<"q">>, <<"H">>>>}

RemoteProjects == {<<"p">>, <<"q">>}

RemoteIncludeLists == {<<>>, <<StrAttachments>>}

Remote(pages, up) == [kind |-> "wiki", pages |-> pages, up |-> up]

\* what the remote wiki held for (project, title) before an operation: the
\* page's version (0: no such page), its text, the number of pages of the project
Before(pages, projectID, wikiTitle) ==
    [version |-> IF PageIndex(pages, projectID, wikiTitle) = 0 THEN 0
                 ELSE Len(pages[PageIndex(pages, projectID, wikiTitle)].revs),
     text    |-> IF PageIndex(pages, projectID, wikiTitle) = 0 THEN ""
                 ELSE pages[PageIndex(pages, projectID, wikiTitle)]
                          .revs[Len(pages[PageIndex(pages, projectID, wikiTitle)].revs)].text,
     npages  |-> Len(Summaries(pages, projectID))]

\* the remote wiki assigns no version above MaxRev
WithinRev(pages) == \A i \in 1..Len(pages) : Len(pages[i].revs) <= MaxRev

\* the operation ran to its return against the remote wiki
RemoteInvoked(op, args, res) ==
    /\ WithinRev(res.t.r.pages)
    /\ last' = [op |-> op, args |-> args, res |-> res]
    /\ server' = res.t.r.pages

RemoteWikiAllGet ==
    /\ last.op = "none"
    /\ \E projectID \in RemoteProjects :
          RemoteInvoked("WikiAllGet", [projectID |-> projectID],
                        WikiAllGet(Remote(server, TRUE), projectID))
    /\ UNCHANGED <<nops, ncalls, inflight, frames>>

RemoteWikiSingleGet ==
    /\ last.op = "none"
    /\ \E key \in RemoteKeys, includes \in RemoteIncludeLists :
          RemoteInvoked("WikiSingleGet",
                        [projectID |-> key[1], wikiTitle |-> key[2],
                         request |-> [Includes |-> includes]],
                        WikiSingleGet(Remote(server, TRUE), key[1], key[2],
                                      [Includes |-> includes]))
    /\ UNCHANGED <<nops, ncalls, inflight, frames>>

RemoteWikiSingleVersionGet ==
    /\ last.op = "none"
    /\ \E key \in RemoteKeys, version \in 0..(MaxRev + 1) :
          RemoteInvoked("WikiSingleVersionGet",
                        [projectID |-> key[1], wikiTitle |-> key[2], version |-> version,
                         request |-> [Includes |-> <<>>]],
                        WikiSingleVersionGet(Remote(server, TRUE), key[1], key[2], version,
                                             [Includes |-> <<>>]))
    /\ UNCHANGED <<nops, ncalls, inflight, frames>>

RemoteWikiCreate ==
    /\ last.op = "none"
    /\ \E key \in RemoteKeys, text \in Texts, up \in BOOLEAN :
          RemoteInvoked("WikiCreate",
                        [projectID |-> key[1], wikiTitle |-> key[2],
                         wiki |-> [Text |-> text, Comments |-> ""],
                         before |-> Before(server, key[1], key[2])],
                        WikiCreate(Remote(server, up), key[1], key[2],
                                   [Text |-> text, Comments |-> ""]))
    /\ UNCHANGED <<nops, ncalls, inflight, frames>>

RemoteWikiUpdate ==
    /\ last.op = "none"
    /\ \E key \in RemoteKeys, text \in Texts, version \in 0..MaxRev :
          RemoteInvoked("WikiUpdate",
                        [projectID |-> key[1], wikiTitle |-> key[2],
                         wiki |-> [Text |-> text, Comments |-> "", Version |-> version],
                         before |-> Before(server, key[1], key[2])],
                        WikiUpdate(Remote(server, TRUE), key[1], key[2],
                                   [Text |-> text, Comments |-> "", Version |-> version]))
    /\ UNCHANGED <<nops, ncalls, inflight, frames>>

RemoteWikiDelete ==
    /\ last.op = "none"
    /\ \E key \in RemoteKeys :
          RemoteInvoked("WikiDelete", [projectID |-> key[1], wikiTitle |-> key[2]],
                        WikiDelete(Remote(server, TRUE), key[1], key[2]))
    /\ UNCHANGED <<nops, ncalls, inflight, frames>>

NextRemote ==
    \/ RemoteWikiAllGet
    \/ RemoteWikiSingleGet
    \/ RemoteWikiSingleVersionGet
    \/ RemoteWikiCreate
    \/ RemoteWikiUpdate
    \/ RemoteWikiDelete
    \/ Returned

SpecRemote == Init /\ [][NextRemote]_vars

----------------------------------------------------------------------------
(* Properties of the operations on the remote wiki (specification SpecRemote) *)

\* get latest and get version of (p, t), and the list of p, on the wiki as it is
LatestNow(p, t) == WikiSingleGet(Remote(server, TRUE), p, t, [Includes |-> <<>>]).ret

VersionNow(p, t, v) ==
    WikiSingleVersionGet(Remote(server, TRUE), p, t, v, [Includes |-> <<>>]).ret

ListNow(p) == WikiAllGet(Remote(server, TRUE), p).ret

\* the number of summaries of l with the title t
TimesListed(l, t) == Cardinality({k \in 1..Len(l) : l[k].Title = t})

C6_RoundTrip(created, got) ==
    /\ got.status = 200
    /\ got.err = NoErr
    /\ got.val.Text = last.args.wiki.Text
    /\ got.val.Title = last.args.wikiTitle
    /\ got.val.Version = Before(server, last.args.projectID, last.args.wikiTitle).version
    /\ created.val.Version = got.val.Version
    /\ "version" \notin last.res.calls[1].body.fields

\* C6: after a successful create, get latest of the same project and title
\* returns the created text and title, with the version the remote wiki assigned
\* (the create request carries no version)
C6_GetLatestAfterCreate ==
    (last.op = "WikiCreate" /\ last.res.ret.status = 201 /\ last.res.ret.err = NoErr) =>
        C6_RoundTrip(last.res.ret, LatestNow(last.args.projectID, last.args.wikiTitle))

\* the page "a" of the project "p" was created with the text "Bye" beside another page
C6_Witness ==
    /\ last.op = "WikiCreate"
    /\ last.res.ret.status = 201
    /\ last.res.ret.err = NoErr
    /\ last.args.projectID = <<"p">>
    /\ last.args.wikiTitle = <<"a">>
    /\ last.args.wiki.Text = "Bye"
    /\ Len(server) = 3
    /\ LatestNow(<<"p">>, <<"a">>).val.Text = "Bye"

C7_OldAndNew(n, old, latest) ==
    /\ old.status = 200
    /\ old.err = NoErr
    /\ old.val.Text = last.args.before.text
    /\ old.val.Version = n
    /\ latest.status = 200
    /\ latest.err = NoErr
    /\ latest.val.Text = last.args.wiki.Text
    /\ latest.val.Version = n + 1

\* C7: after a successful update of a page that was at version N, get version
\* N returns the text from before the update, get latest returns the text of
\* the update, and the page is at version N + 1
C7_VersionsAfterUpdate ==
    (last.op = "WikiUpdate" /\ last.res.ret.status = 204 /\ last.res.ret.err = NoErr) =>
        /\ last.args.before.version >= 1
        /\ C7_OldAndNew(last.args.before.version,
                        VersionNow(last.args.projectID, last.args.wikiTitle,
                                   last.args.before.version),
                        LatestNow(last.args.projectID, last.args.wikiTitle))

\* a page at version 2 with the text "Hello" was updated to "Bye"
C7_Witness ==
    /\ last.op = "WikiUpdate"
    /\ last.res.ret.status = 204
    /\ last.res.ret.err = NoErr
    /\ last.args.before.version = 2
    /\ last.args.before.text = "Hello"
    /\ last.args.wiki.Text = "Bye"
    /\ VersionNow(last.args.projectID, last.args.wikiTitle, 2).val.Text = "Hello"
    /\ LatestNow(last.args.projectID, last.args.wikiTitle).val.Text = "Bye"

\* C8: after a create the remote wiki accepted, the project lists the title
\* exactly once and the page has the created text; a create on an existing
\* title adds no page but a version to that page, and with the same text it
\* leaves the page's text as it was
C8_CreateOverwrites ==
    (last.op = "WikiCreate" /\ last.res.ret.status \in {201, 204}) =>
        /\ TimesListed(ListNow(last.args.projectID).val, last.args.wikiTitle) = 1
        /\ LatestNow(last.args.projectID, last.args.wikiTitle).val.Text = last.args.wiki.Text
        /\ last.args.before.version >= 1 =>
               /\ last.res.ret.status = 204
               /\ Len(ListNow(last.args.projectID).val) = last.args.before.npages
               /\ LatestNow(last.args.projectID, last.args.wikiTitle).val.Version
                      = last.args.before.version + 1
               /\ last.args.wiki.Text = last.args.before.text =>
                      LatestNow(last.args.projectID, last.args.wikiTitle).val.Text
                          = last.args.before.text

\* a create with the text "Hello" on a page that had the text "Hello" at version 2
C8_Witness ==
    /\ last.op = "WikiCreate"
    /\ last.res.ret.status = 204
    /\ last.args.before.version = 2
    /\ last.args.before.text = "Hello"
    /\ last.args.wiki.Text = "Hello"
    /\ last.args.before.npages = 2
    /\ TimesListed(ListNow(last.args.projectID).val, last.args.wikiTitle) = 1

----------------------------------------------------------------------------
(* Callers that issue operations concurrently on one Context                 *)

CallIds == 1..MaxCalls

\* variant of Frame: the locals are kept in one place shared by all the calls
FrameShared(c) == 1

\* where a call keeps its locals: every activation of an operation declares
\* its own w and ur
Frame(c) == c

\* the call an operation prepares, and what it returns, by operation
OpCall(op, args) ==
    CASE op = "WikiAllGet" -> WikiAllGetCall(args.projectID)
      [] op = "WikiSingleGet" ->
            WikiSingleGetCall(args.projectID, args.wikiTitle, args.request)
      [] op = "WikiSingleVersionGet" ->
            WikiSingleVersionGetCall(args.projectID, args.wikiTitle, args.version,
                                     args.request)
      [] op = "WikiCreate" -> WikiCreateCall(args.projectID, args.wikiTitle, args.wiki)
      [] op = "WikiUpdate" -> WikiUpdateCall(args.projectID, args.wikiTitle, args.wiki)
      [] op = "WikiDelete" -> WikiDeleteCall(args.projectID, args.wikiTitle)

OpReturn(op, w, status, err) ==
    CASE op = "WikiAllGet" -> WikiAllGetReturn(w, status, err)
      [] op = "WikiSingleGet" -> WikiSingleGetReturn(w, status, err)
      [] op = "WikiSingleVersionGet" -> WikiSingleVersionGetReturn(w, status, err)
      [] op = "WikiCreate" -> WikiCreateReturn(w, status, err)
      [] op = "WikiUpdate" -> WikiUpdateReturn(status, err)
      [] op = "WikiDelete" -> WikiDeleteReturn(status, err)

\* the operation issued alone, from its call to its return
Alone(op, args, resp) ==
    CASE op = "WikiAllGet" -> WikiAllGet(Mock(resp), args.projectID)
      [] op = "WikiSingleGet" ->
            WikiSingleGet(Mock(resp), args.projectID, args.wikiTitle, args.request)
      [] op = "WikiSingleVersionGet" ->
            WikiSingleVersionGet(Mock(resp), args.projectID, args.wikiTitle, args.version,
                                 args.request)
      [] op = "WikiCreate" ->
            WikiCreate(Mock(resp), args.projectID, args.wikiTitle, args.wiki)
      [] op = "WikiUpdate" ->
            WikiUpdate(Mock(resp), args.projectID, args.wikiTitle, args.wiki)
      [] op = "WikiDelete" -> WikiDelete(Mock(resp), args.projectID, args.wikiTitle)

ConcInvocations ==
    {[op |-> "WikiAllGet", args |-> [projectID |-> <<"p">>]],
     [op |-> "WikiSingleGet",
      args |-> [projectID |-> <<"p">>, wikiTitle |-> <<"H">>,
                request |-> [Includes |-> <<StrAttachments>>]]],
     [op |-> "WikiSingleVersionGet",
      args |-> [projectID |-> <<"q">>, wikiTitle |-> <<"a">>, version |-> 2,
                request |-> [Includes |-> <<>>]]],
     [op |-> "WikiCreate",
      args |-> [projectID |-> <<"p">>, wikiTitle |-> <<"H">>,
                wiki |-> [Text |-> "Hello", Comments |-> "fix"]]],
     [op |-> "WikiUpdate",
      args |-> [projectID |-> <<"q">>, wikiTitle |-> <<"a">>,
                wiki |-> [Text |-> "Bye", Comments |-> "", Version |-> 1]]],
     [op |-> "WikiDelete", args |-> [projectID |-> <<"p">>, wikiTitle |-> <<"a">>]]}

ConcResponses ==
    {NetErr,
     Http(StatusOK, [kind |-> "wiki_page", page |-> PageH]),
     Http(StatusNotFound, [kind |-> "wiki_pages", pages |-> <<SummaryA, SummaryH>>])}

NoFrame == [method |-> "none"]

InitConc ==
    /\ nops = 0
    /\ ncalls = 0
    /\ last = NoOp
    /\ server = <<>>
    /\ inflight = [c \in CallIds |-> [pc |-> "idle"]]
    /\ frames = [c \in CallIds |-> NoFrame]

\* a caller enters an operation: the activation declares w and builds ur
\* (waiting: another call was waiting for its answer at that moment)
ConcBegin(c) ==
    /\ inflight[c].pc = "idle"
    /\ \E inv \in ConcInvocations :
          /\ inflight' = [inflight EXCEPT ![c] =
                             [pc |-> "called", op |-> inv.op, args |-> inv.args,
                              waiting |-> \E d \in CallIds : inflight[d].pc = "called"]]
          /\ frames' = [frames EXCEPT ![Frame(c)] = OpCall(inv.op, inv.args)]
    /\ UNCHANGED <<nops, ncalls, last, server>>

\* the transport performs the call of c: it sends what the activation holds
\* and decodes the answer into the activation's w
ConcTransport(c) ==
    /\ inflight[c].pc = "called"
    /\ \E resp \in ConcResponses :
          /\ inflight' = [inflight EXCEPT ![c] =
                             [pc |-> "answered", op |-> inflight[c].op,
                              args |-> inflight[c].args,
                              waiting |-> inflight[c].waiting, resp |-> resp,
                              sent |-> Send(Mock(resp), frames[Frame(c)]).call,
                              status |-> Send(Mock(resp), frames[Frame(c)]).status,
                              err |-> Send(Mock(resp), frames[Frame(c)]).err]]
          /\ frames' = [frames EXCEPT ![Frame(c)].w =
                           Send(Mock(resp), frames[Frame(c)]).out]
    /\ ncalls' = ncalls + 1
    /\ UNCHANGED <<nops, last, server>>

\* the operation of c returns what its w, status and err hold
ConcReturn(c) ==
    /\ inflight[c].pc = "answered"
    /\ inflight' = [inflight EXCEPT ![c] =
                       [pc |-> "returned", op |-> inflight[c].op,
                        args |-> inflight[c].args, waiting |-> inflight[c].waiting,
                        resp |-> inflight[c].resp,
                        sent |-> inflight[c].sent,
                        ret |-> OpReturn(inflight[c].op, frames[Frame(c)].w,
                                         inflight[c].status, inflight[c].err)]]
    /\ UNCHANGED <<nops, ncalls, last, server, frames>>

NextConc == \E c \in CallIds : ConcBegin(c) \/ ConcTransport(c) \/ ConcReturn(c)

SpecConc == InitConc /\ [][NextConc]_vars

\* C10: in every interleaving of concurrent calls on one Context, each call
\* sends the request and returns the result it would have had if issued alone
C10_CallsAreIndependent ==
    \A c \in CallIds :
        /\ inflight[c].pc \in {"answered", "returned"} =>
               inflight[c].sent
                   = Alone(inflight[c].op, inflight[c].args, inflight[c].resp).t.call
        /\ inflight[c].pc = "returned" =>
               inflight[c].ret
                   = Alone(inflight[c].op, inflight[c].args, inflight[c].resp).ret

\* a create entered while a get latest was waiting for its answer, and both
\* returned
C10_Witness ==
    /\ inflight[2].pc = "returned"
    /\ inflight[2].waiting
    /\ ~inflight[1].waiting
    /\ inflight[1].pc = "returned"
    /\ inflight[1].op = "WikiSingleGet"
    /\ inflight[1].ret.status = 200
    /\ inflight[1].ret.val = PageH
    /\ inflight[2].op = "WikiCreate"
    /\ inflight[2].ret.err = ErrTransport
    /\ ncalls = 2

====
